---- MODULE Spec2Model ----
(***************************************************************************)
(* Model of the FSM-driven interactor: Region (pick test, image loading    *)
(* and the static image cache), Action (binding and execution), the FSM    *)
(* transition step and FSMInteractor (pick, raw event dispatch).           *)
(***************************************************************************)
EXTENDS Integers, Sequences, FiniteSets, TLC

\* ------------------------------------------------------------------------
\* Bounds of the model
\* ------------------------------------------------------------------------
MaxPos == 1      \* region positions are drawn from 0..MaxPos
MaxSize == 1     \* explicit region sizes are drawn from 0..MaxSize
MaxImages == 2   \* at most this many Image objects are ever created
MaxLoads == 1    \* FSM descriptions loaded or being fetched, at most

\* ------------------------------------------------------------------------
\* Values
\* ------------------------------------------------------------------------
Undefined == 0   \* the JavaScript value undefined (no image, no region)
NoEntry == -1    \* Map.has(key) is false

RegionNames == <<"A", "B", "C">>     \* fsm.regions, in draw order
NumRegions == Len(RegionNames)
RegionIds == 1..NumRegions
Twin == NumRegions + 1               \* a further Region object, named like A
\* Region objects are told apart by identity: region k of the g-th FSM object
\* the interactor has held is object g * Stride + k
Stride == NumRegions + 1
IndexOf(obj) == ((obj - 1) % Stride) + 1
RegionName(id) == IF id = Twin THEN RegionNames[1] ELSE RegionNames[IndexOf(id)]
Locs == {"p", "q"}                   \* image locations that can be fetched
AllLocs == Locs \cup {""}
Coords == 0..(MaxPos + MaxSize)        \* pointer positions (interactor-local)
LocalCoords == -1..(MaxSize + 1)       \* pointer positions (region-local)
RawKinds == {"press", "move", "release", "rightClick"}
States == {"S0", "S1", "S2"}

\* natural size of the image stored at a location (a fact of the resource)
NaturalW(loc) == IF loc = "p" THEN MaxSize ELSE MaxSize + 1
NaturalH(loc) == MaxSize

VARIABLES
    regions,      \* RegionIds -> the Region objects of the FSM
    cache,        \* Region._imageCache: AllLocs -> NoEntry | Undefined | image id
    images,       \* the Image objects created so far: id -> [src, status, owner]
    cur,          \* FSM current state
    bookkeeping,  \* FSMInteractor._bookkeeping: sequence of region ids
    hasFsm,       \* FSMInteractor._fsm !== undefined
    host,         \* FSMInteractor._parent !== undefined
    delivered,    \* semantic events handed to fsm.actOnEvent by the last dispatch
    intr,         \* FSMInteractor: _x, _y, which FSM object _fsm is (gen), and the
                  \* FSM description fetches in flight (fetching)
    last          \* what the last operation was and what it was observed to do

vars == <<regions, cache, images, cur, bookkeeping, hasFsm, host, delivered, intr, last>>

\* ------------------------------------------------------------------------
\* The part of the state that handlers mutate, threaded through the helpers:
\* [regions, cache, images, cur, host, dmg, errs, started, acts, at]
\*   dmg     = number of damage() calls that reached the host
\*   errs    = number of Err.emit diagnostics
\*   started = number of image loads started (img.src assigned)
\*   acts    = the action types execute() was called for, in order
\*   at      = the FSM state at each of those calls
\* ------------------------------------------------------------------------
World == [regions |-> regions, cache |-> cache, images |-> images, cur |-> cur,
          host |-> host, dmg |-> 0, errs |-> 0, started |-> 0, acts |-> <<>>,
          at |-> <<>>]

\* ------------------------------------------------------------------------
\* Damage propagation: Region -> FSM -> FSMInteractor -> host
\* ------------------------------------------------------------------------
InteractorDamage(W) ==
    IF W.host THEN [W EXCEPT !.dmg = @ + 1] ELSE W

FSMDamage(W) == InteractorDamage(W)

\* a region damage() that does not test for a parent
RegionDamage_NoParentTest(W, r) == FSMDamage(W)

\* Region.damage()
RegionDamage(W, r) ==
    IF W.regions[r].parent THEN FSMDamage(W) ELSE W

\* ------------------------------------------------------------------------
\* Region
\* ------------------------------------------------------------------------
\* width / height of an HTMLImageElement: natural size once loaded, else 0
ImageWidth(W, i) ==
    IF W.images[i].status = "ok" THEN NaturalW(W.images[i].src) ELSE 0

ImageHeight(W, i) ==
    IF W.images[i].status = "ok" THEN NaturalH(W.images[i].src) ELSE 0

\* set x(v)
SetX(W, r, v) ==
    IF ~(W.regions[r].x = v)
    THEN RegionDamage([W EXCEPT !.regions[r].x = v], r)
    ELSE W

\* set y(v)
SetY(W, r, v) ==
    IF ~(W.regions[r].y = v)
    THEN RegionDamage([W EXCEPT !.regions[r].y = v], r)
    ELSE W

\* a width setter that declares damage whether or not the value changed
SetW_AlwaysDamage(W, r, v) ==
    RegionDamage([W EXCEPT !.regions[r].w = v], r)

\* set w(v)
SetW(W, r, v) ==
    IF ~(W.regions[r].w = v)
    THEN RegionDamage([W EXCEPT !.regions[r].w = v], r)
    ELSE W

\* set h(v)
SetH(W, r, v) ==
    IF ~(W.regions[r].h = v)
    THEN RegionDamage([W EXCEPT !.regions[r].h = v], r)
    ELSE W

\* set size(v)
SetSize(W, r, w, h) ==
    IF (w # W.regions[r].w) \/ (h # W.regions[r].h)
    THEN RegionDamage([W EXCEPT !.regions[r].w = w, !.regions[r].h = h], r)
    ELSE W

\* _resizeFromImage()
ResizeFromImage(W, r) ==
    LET R == W.regions[r] IN
    IF R.resizedByImage /\ R.loaded /\ R.image # Undefined
    THEN SetSize(W, r, ImageWidth(W, R.image), ImageHeight(W, R.image))
    ELSE W

ImageIsCached(W, loc) == W.cache[loc] # NoEntry

ImageFromCache(W, loc) == IF W.cache[loc] = NoEntry THEN Undefined ELSE W.cache[loc]

CacheImage(W, loc, img) == [W EXCEPT !.cache[loc] = img]

\* _startImageLoad(), up to the await: the empty location, the cache hit, or
\* a new Image whose load is started by assigning img.src
\* a start of load whose empty-location case leaves the load state as it was
StartImageLoad_EmptyKeepsState(W, r) ==
    LET loc == W.regions[r].imageLoc IN
    IF loc = ""
    THEN RegionDamage(W, r)
    ELSE IF ImageIsCached(W, loc)
    THEN RegionDamage(ResizeFromImage(
             [W EXCEPT !.regions[r].image = ImageFromCache(W, loc),
                       !.regions[r].loaded = TRUE,
                       !.regions[r].loadError = FALSE], r), r)
    ELSE LET id == Len(W.images) + 1 IN
         [W EXCEPT !.images = Append(@, [src |-> loc, status |-> "pending", owner |-> r]),
                   !.regions[r].image = id,
                   !.regions[r].loaded = FALSE,
                   !.regions[r].loadError = FALSE,
                   !.started = @ + 1]

\* a start of load that never looks in the cache
StartImageLoad_IgnoresCache(W, r) ==
    LET loc == W.regions[r].imageLoc IN
    IF loc = ""
    THEN RegionDamage(ResizeFromImage(
             [W EXCEPT !.regions[r].image = Undefined,
                       !.regions[r].loaded = TRUE,
                       !.regions[r].loadError = FALSE], r), r)
    ELSE LET id == Len(W.images) + 1 IN
         [W EXCEPT !.images = Append(@, [src |-> loc, status |-> "pending", owner |-> r]),
                   !.regions[r].image = id,
                   !.regions[r].loaded = FALSE,
                   !.regions[r].loadError = FALSE,
                   !.started = @ + 1]

StartImageLoad(W, r) ==
    LET loc == W.regions[r].imageLoc IN
    IF loc = ""
    THEN RegionDamage(ResizeFromImage(
             [W EXCEPT !.regions[r].image = Undefined,
                       !.regions[r].loaded = TRUE,
                       !.regions[r].loadError = FALSE], r), r)
    ELSE IF ImageIsCached(W, loc)
    THEN RegionDamage(ResizeFromImage(
             [W EXCEPT !.regions[r].image = ImageFromCache(W, loc),
                       !.regions[r].loaded = TRUE,
                       !.regions[r].loadError = FALSE], r), r)
    ELSE LET id == Len(W.images) + 1 IN
         [W EXCEPT !.images = Append(@, [src |-> loc, status |-> "pending", owner |-> r]),
                   !.regions[r].image = id,
                   !.regions[r].loaded = FALSE,
                   !.regions[r].loadError = FALSE,
                   !.started = @ + 1]

\* img.onload, then the code after the await: cache under the region's
\* current location, damage
OnLoad(W, i) ==
    LET r  == W.images[i].owner
        W1 == [W EXCEPT !.images[i].status = "ok", !.regions[r].loaded = TRUE]
        W2 == ResizeFromImage(W1, r)
        R  == W2.regions[r]
        W3 == CacheImage(W2, R.imageLoc, IF R.loadError THEN Undefined ELSE R.image)
    IN RegionDamage(W3, r)

\* an error handler that records the error but leaves loaded as it was
OnError_NotLoaded(W, i) ==
    LET r == W.images[i].owner IN
    [W EXCEPT !.images[i].status = "failed",
              !.regions[r].loadError = TRUE,
              !.errs = @ + 1]

\* img.onerror: the promise is rejected, so the code after the await never runs
OnError(W, i) ==
    LET r == W.images[i].owner IN
    [W EXCEPT !.images[i].status = "failed",
              !.regions[r].loadError = TRUE,
              !.regions[r].loaded = TRUE,
              !.errs = @ + 1]

\* a location setter that restarts the load even when the value is the same
SetImageLoc_NoGuard(W, r, v) ==
    StartImageLoad([W EXCEPT !.regions[r].imageLoc = v], r)

\* set imageLoc(v)
SetImageLoc(W, r, v) ==
    IF v # W.regions[r].imageLoc
    THEN StartImageLoad([W EXCEPT !.regions[r].imageLoc = v], r)
    ELSE W

\* a pick test that leaves the right and bottom edges out
RegionPick_OpenEdges(R, localX, localY) ==
    (0 <= localX) /\ (localX < R.w) /\ (0 <= localY) /\ (localY < R.h)

\* Region.pick(localX, localY)
RegionPick(R, localX, localY) ==
    (0 <= localX) /\ (localX <= R.w) /\ (0 <= localY) /\ (localY <= R.h)

\* new Region(name, imageLoc, x, y, w, h, canvas, parent)
NewRegion(name, imageLoc, x, y, w, h) ==
    [name |-> name, parent |-> TRUE, imageLoc |-> imageLoc,
     resizedByImage |-> ((w < 0) \/ (h < 0)),
     x |-> x, y |-> y,
     w |-> IF w < 0 THEN 0 ELSE w,
     h |-> IF h < 0 THEN 0 ELSE h,
     loaded |-> FALSE, loadError |-> FALSE, image |-> Undefined]

\* ------------------------------------------------------------------------
\* Action
\* ------------------------------------------------------------------------
\* the action types (actionTypeStrings)
ActionTypes ==
    {"set_image", "clear_image", "none", "print", "print_event", "select_lineBrush",
     "draw_line", "draw_rect", "draw_circle", "erase", "stopCurrentDrawing",
     "select_color", "draw_free", "move_menu"}

RegionOptional == {"none", "print", "print_event"}

\* a search that keeps going after a match: the last region with the name
BindSearch_Last(name, regionList, k) ==
    LET S == {j \in k..Len(regionList) : RegionName(regionList[j]) = name} IN
    IF S = {} THEN Undefined
    ELSE regionList[CHOOSE j \in S : \A i \in S : i <= j]

RECURSIVE BindSearch(_, _, _)
\* the for loop of bindRegion: the first region of the list with the name
BindSearch(name, regionList, k) ==
    IF k > Len(regionList) THEN Undefined
    ELSE IF RegionName(regionList[k]) = name THEN regionList[k]
    ELSE BindSearch(name, regionList, k + 1)

\* bindRegion(regionList): the new value of _onRegion (prev = its old value)
BindRegion(a, prev, regionList) ==
    LET found == BindSearch(a.region, regionList, 1) IN
    IF found # Undefined THEN found
    ELSE IF a.act \in RegionOptional THEN Undefined
    ELSE prev

\* a bindRegion that reports every action it could not bind
BindDiagnostics_AnyType(a, regionList) ==
    IF BindSearch(a.region, regionList, 1) # Undefined THEN 0 ELSE 1

\* bindRegion(regionList): the number of Err.emit diagnostics
BindDiagnostics(a, regionList) ==
    IF BindSearch(a.region, regionList, 1) # Undefined THEN 0
    ELSE IF a.act \in RegionOptional THEN 0
    ELSE 1

\* the region an action of the FSM is bound to after construction
OnRegion(a) == BindRegion(a, Undefined, [k \in RegionIds |-> k])

\* an execute whose set_image clears the image whatever its param
Execute_SetImageIsClear(W, a) ==
    LET onRegion == OnRegion(a) IN
    CASE a.act \in {"set_image", "clear_image"} ->
            IF onRegion # Undefined THEN SetImageLoc(W, onRegion, "") ELSE W
      [] OTHER -> W

\* an execute whose clear_image does nothing
Execute_ClearIsNone(W, a) ==
    LET onRegion == OnRegion(a) IN
    CASE a.act = "set_image" ->
            IF onRegion # Undefined THEN SetImageLoc(W, onRegion, a.param) ELSE W
      [] OTHER -> W

\* an execute whose set_image and clear_image fall back on the first region
\* when the action is unbound
Execute_UnboundActsOnFirst(W, a) ==
    LET onRegion == IF OnRegion(a) = Undefined THEN 1 ELSE OnRegion(a) IN
    CASE a.act = "none" -> W
      [] a.act = "set_image" -> SetImageLoc(W, onRegion, a.param)
      [] a.act = "clear_image" -> SetImageLoc(W, onRegion, "")
      [] OTHER -> W

\* execute(evtType, evtReg, evt)
Execute(W, a) ==
    LET onRegion == OnRegion(a) IN
    CASE a.act = "none" -> W
      [] a.act = "set_image" ->
            IF onRegion # Undefined THEN SetImageLoc(W, onRegion, a.param) ELSE W
      [] a.act = "clear_image" ->
            IF onRegion # Undefined THEN SetImageLoc(W, onRegion, "") ELSE W
      [] OTHER -> W

\* ------------------------------------------------------------------------
\* FSM
\* ------------------------------------------------------------------------
Act(act, region, param) == [act |-> act, region |-> region, param |-> param]

Trans(from, evt, region, actions, to) ==
    [from |-> from, evt |-> evt, region |-> region, actions |-> actions, to |-> to]

\* the transition table of the FSM under test ("*" = any region, or none)
Transitions == <<
    Trans("S0", "press", "A", <<Act("set_image", "A", "p")>>, "S1"),
    Trans("S0", "enter", "C", <<Act("set_image", "C", "q")>>, "S1"),
    Trans("S0", "rightClick", "*",
          <<Act("select_color", "A", ""), Act("balloon_bigger", "A", ""),
            Act("print", "", "menu")>>, "S0"),
    Trans("S1", "exit", "*", <<Act("print", "", "bye")>>, "S0"),
    Trans("S1", "press", "*",
          <<Act("set_image", "C", "p"), Act("clear_image", "A", "")>>, "S2"),
    Trans("S1", "move_inside", "B", <<Act("set_image", "C", "q")>>, "S1"),
    Trans("S2", "release_none", "*", <<Act("clear_image", "C", "")>>, "S0"),
    Trans("S2", "release", "B",
          <<Act("print_event", "B", "up"), Act("set_image", "Z", "p")>>, "S0") >>

EventName(e) == IF e.region = Undefined THEN "" ELSE RegionNames[IndexOf(e.region)]

Matches(t, state, e, name) == t.from = state /\ t.evt = e.type /\ t.region = name

\* index of the transition taken for event e in the given state, or 0: an
\* exact region match takes priority over a wildcard
FindTransition(state, e) ==
    LET exact == {k \in 1..Len(Transitions) :
                     e.region # Undefined /\ Matches(Transitions[k], state, e, EventName(e))}
        wild  == {k \in 1..Len(Transitions) : Matches(Transitions[k], state, e, "*")}
        Min(S) == CHOOSE k \in S : \A j \in S : k <= j
    IN IF exact # {} THEN Min(exact) ELSE IF wild # {} THEN Min(wild) ELSE 0

RECURSIVE ExecuteAll(_, _, _)
ExecuteAll(W, actions, k) ==
    IF k > Len(actions) THEN W
    ELSE ExecuteAll(Execute([W EXCEPT !.acts = Append(@, actions[k].act),
                                      !.at = Append(@, W.cur)], actions[k]),
                    actions, k + 1)

\* a matched transition is taken: its actions, then its target state
TakeTransition(W, t) == [ExecuteAll(W, t.actions, 1) EXCEPT !.cur = t.to]

\* actOnEvent(evtType, region, evt)
ActOnEvent(W, e) ==
    LET k == FindTransition(W.cur, e) IN
    IF k = 0 THEN W
    ELSE TakeTransition(W, Transitions[k])

RECURSIVE ActOnEvents_StopAtUnmatched(_, _, _)
\* a delivery that gives up at the first event no transition matches
ActOnEvents_StopAtUnmatched(W, events, k) ==
    IF k > Len(events) THEN W
    ELSE IF FindTransition(W.cur, events[k]) = 0 THEN W
    ELSE ActOnEvents_StopAtUnmatched(ActOnEvent(W, events[k]), events, k + 1)

RECURSIVE ActFrom(_, _, _, _)
ActFrom(W, events, k, state) ==
    IF k > Len(events) THEN W
    ELSE LET j == FindTransition(state, events[k]) IN
         ActFrom(IF j = 0 THEN W ELSE TakeTransition(W, Transitions[j]),
                 events, k + 1, state)

\* a delivery that looks every event up in the state the dispatch began in
ActOnEvents_FromStartState(W, events, k) == ActFrom(W, events, k, W.cur)

RECURSIVE ActOnEvents(_, _, _)
\* the forEach calls of dispatchRawEvent: one actOnEvent per event, in order
ActOnEvents(W, events, k) ==
    IF k > Len(events) THEN W
    ELSE ActOnEvents(ActOnEvent(W, events[k]), events, k + 1)

\* ------------------------------------------------------------------------
\* FSMInteractor
\* ------------------------------------------------------------------------
\* the Region object that is region k of the interactor's current FSM
Obj(k) == intr.gen * Stride + k

RECURSIVE PickLoop_Push(_, _, _, _, _)
\* a pick loop that appends each hit (push) instead of putting it at the front
PickLoop_Push(regs, localX, localY, k, pickList) ==
    IF k > NumRegions THEN pickList
    ELSE PickLoop_Push(regs, localX, localY, k + 1,
                  IF (0 <= localX - regs[k].x) /\ (localX - regs[k].x <= regs[k].w)
                     /\ (0 <= localY - regs[k].y) /\ (localY - regs[k].y <= regs[k].h)
                  THEN Append(pickList, Obj(k))
                  ELSE pickList)

RECURSIVE PickLoop(_, _, _, _, _)
\* the loop of pick(): regions in draw order, each hit put at the front
PickLoop(regs, localX, localY, k, pickList) ==
    IF k > NumRegions THEN pickList
    ELSE PickLoop(regs, localX, localY, k + 1,
                  IF RegionPick(regs[k], localX - regs[k].x, localY - regs[k].y)
                  THEN <<Obj(k)>> \o pickList
                  ELSE pickList)

\* a pick that does not test for an FSM
Pick_NoFsmTest(fsm, regs, localX, localY) == PickLoop(regs, localX, localY, 1, <<>>)

\* pick(localX, localY)
Pick(fsm, regs, localX, localY) ==
    IF ~fsm THEN <<>> ELSE PickLoop(regs, localX, localY, 1, <<>>)

Includes(list, r) == \E k \in 1..Len(list) : list[k] = r

Evt(type, r) == [type |-> type, region |-> r]

EventsFor(type, list) == [k \in 1..Len(list) |-> Evt(type, list[k])]

\* an enter list that forgets the regions already entered
EnterRegions_NoFilter(currRegions, book) == currRegions

\* currRegions.filter(x => !bookkeeping.includes(x))
EnterRegions(currRegions, book) ==
    SelectSeq(currRegions, LAMBDA r : ~Includes(book, r))

\* bookkeeping.filter(y => !currRegions.includes(y))
ExitRegions(currRegions, book) ==
    SelectSeq(book, LAMBDA r : ~Includes(currRegions, r))

\* a switch whose release case has no release_none branch
KindEvents_NoReleaseNone(what, currRegions) ==
    CASE what = "rightClick" -> EventsFor("rightClick", currRegions)
      [] what = "press" -> EventsFor("press", currRegions)
      [] what = "move" -> EventsFor("move_inside", currRegions)
      [] what = "release" -> EventsFor("release", currRegions)
      [] OTHER -> <<>>

\* a switch that delivers press and move_inside to the topmost region only
KindEvents_TopOnly(what, currRegions) ==
    CASE what = "rightClick" -> EventsFor("rightClick", currRegions)
      [] what = "press" -> EventsFor("press", SubSeq(currRegions, 1, 1))
      [] what = "move" -> EventsFor("move_inside", SubSeq(currRegions, 1, 1))
      [] what = "release" ->
            IF Len(currRegions) > 0 THEN EventsFor("release", currRegions)
            ELSE <<Evt("release_none", Undefined)>>
      [] OTHER -> <<>>

\* the switch on the raw event kind
KindEvents(what, currRegions) ==
    CASE what = "rightClick" -> EventsFor("rightClick", currRegions)
      [] what = "press" -> EventsFor("press", currRegions)
      [] what = "move" -> EventsFor("move_inside", currRegions)
      [] what = "release" ->
            IF Len(currRegions) > 0 THEN EventsFor("release", currRegions)
            ELSE <<Evt("release_none", Undefined)>>
      [] OTHER -> <<>>

\* a dispatch that delivers the enter events before the exit events
DispatchEvents_EnterFirst(what, currRegions, book) ==
    EventsFor("enter", SelectSeq(currRegions, LAMBDA r : ~Includes(book, r)))
      \o EventsFor("exit", SelectSeq(book, LAMBDA r : ~Includes(currRegions, r)))
      \o KindEvents(what, currRegions)

\* the semantic events of one dispatchRawEvent call, in delivery order
DispatchEvents(what, currRegions, book) ==
    EventsFor("exit", ExitRegions(currRegions, book))
      \o EventsFor("enter", EnterRegions(currRegions, book))
      \o KindEvents(what, currRegions)

\* a dispatch that picks again after the actions have run
NewBookkeeping_PickAgain(currRegions, W, localX, localY) ==
    Pick(TRUE, W.regions, localX, localY)

\* this.bookkeeping = currRegions: the list picked at the start of the call
NewBookkeeping(currRegions, W, localX, localY) == currRegions

\* a bookkeeping setter that compares the lists element by element
SetBookkeeping_ByValue(W, old, v) ==
    IF ~(old = v) THEN InteractorDamage(W) ELSE W

\* set bookkeeping(v): the guard compares array identities, and v is the
\* array pick() has just built, never the stored one
SetBookkeeping(W, old, v) == InteractorDamage(W)

\* what is recorded of an operation: its arguments (what, x, y, r), the pick
\* list it computed (picked), the bookkeeping it found (book), what picking
\* again on its return would give (repick), a boolean result (hit), the
\* counts of damage(), Err.emit and loads started, the action types
\* executed (acts) and the Action object the operation was called on (act)
NoObs == [op |-> "init", what |-> "", x |-> 0, y |-> 0, r |-> 0, picked |-> <<>>,
          book |-> <<>>, repick |-> <<>>, hit |-> FALSE,
          dmg |-> 0, errs |-> 0, started |-> 0, acts |-> <<>>, at |-> <<>>,
          act |-> Act("none", "", "")]

Observed(o, W) ==
    [o EXCEPT !.dmg = W.dmg, !.errs = W.errs, !.started = W.started, !.acts = W.acts,
              !.at = W.at]

Commit(W) ==
    /\ Len(W.images) <= MaxImages
    /\ regions' = W.regions
    /\ cache' = W.cache
    /\ images' = W.images
    /\ cur' = W.cur

\* dispatchRawEvent(what, localX, localY, evt)
DispatchRawEvent(what, localX, localY) ==
    LET obs == [NoObs EXCEPT !.op = "dispatch", !.what = what, !.book = bookkeeping]
    IN
    IF ~hasFsm
    THEN /\ last' = obs
         /\ delivered' = <<>>
         /\ UNCHANGED <<regions, cache, images, cur, bookkeeping, hasFsm, host, intr>>
    ELSE LET currRegions == Pick(hasFsm, regions, localX, localY)
             events == DispatchEvents(what, currRegions, bookkeeping)
             W1 == ActOnEvents(World, events, 1)
         IN /\ \E V1 \in {W1} : \E V2 \in {SetBookkeeping(V1, bookkeeping, currRegions)} :
                  /\ Commit(V2)
                  /\ bookkeeping' = NewBookkeeping(currRegions, V1, localX, localY)
                  /\ last' = Observed([obs EXCEPT !.picked = currRegions,
                          !.repick = Pick(hasFsm, V2.regions, localX, localY)], V2)
            /\ delivered' = events
            /\ UNCHANGED <<hasFsm, host, intr>>

\* interactor.pick(localX, localY), from client code
PickAt(localX, localY) ==
    /\ last' = [NoObs EXCEPT !.op = "pick", !.x = localX, !.y = localY,
                             !.picked = Pick(hasFsm, regions, localX, localY)]
    /\ UNCHANGED <<regions, cache, images, cur, bookkeeping, hasFsm, host, delivered, intr>>

\* region.pick(localX, localY), from client code
RegionPickAt(r, localX, localY) ==
    /\ last' = [NoObs EXCEPT !.op = "regionPick", !.r = r, !.x = localX, !.y = localY,
                             !.hit = RegionPick(regions[r], localX, localY)]
    /\ UNCHANGED <<regions, cache, images, cur, bookkeeping, hasFsm, host, delivered, intr>>

\* an image load completes: img.onload and the continuation of _startImageLoad
\* (recorded: the location in what, the Image in x, its region in r)
LoadSucceeds(i) ==
    /\ images[i].status = "pending"
    /\ \E W \in {OnLoad(World, i)} :
          /\ Commit(W)
          /\ last' = Observed([NoObs EXCEPT !.op = "onload", !.what = images[i].src,
                                            !.x = i, !.r = images[i].owner], W)
    /\ UNCHANGED <<bookkeeping, hasFsm, host, delivered, intr>>

\* an image load fails: img.onerror
LoadFails(i) ==
    /\ images[i].status = "pending"
    /\ \E W \in {OnError(World, i)} :
          /\ Commit(W)
          /\ last' = Observed([NoObs EXCEPT !.op = "onerror", !.what = images[i].src,
                                            !.x = i, !.r = images[i].owner], W)
    /\ UNCHANGED <<bookkeeping, hasFsm, host, delivered, intr>>

\* region.imageLoc = v, from client code or from a set_image / clear_image action
SetRegionImageLoc(r, v) ==
    /\ \E W \in {SetImageLoc(World, r, v)} :
          /\ Commit(W)
          /\ last' = Observed([NoObs EXCEPT !.op = "imageLoc", !.what = v, !.r = r,
                                            !.hit = (v # regions[r].imageLoc)], W)
    /\ UNCHANGED <<bookkeeping, hasFsm, host, delivered, intr>>

\* region.x = v, region.y = v, region.w = v or region.h = v, from client code
SetRegionField(r, f, v) ==
    /\ \E W \in {CASE f = "x" -> SetX(World, r, v)
                   [] f = "y" -> SetY(World, r, v)
                   [] f = "w" -> SetW(World, r, v)
                   [] OTHER   -> SetH(World, r, v)} :
          /\ Commit(W)
          /\ last' = Observed([NoObs EXCEPT !.op = "set", !.what = f, !.x = v, !.r = r,
                                            !.hit = (v # regions[r][f])], W)
    /\ UNCHANGED <<bookkeeping, hasFsm, host, delivered, intr>>

\* action.execute(evtType, evtReg, evt) (recorded: the action in act, its
\* type in op, the location it sets in what, its target in r, whether that
\* differs from the target's location in hit)
ExecuteAction(a) ==
    LET onRegion == OnRegion(a)
        v == IF a.act = "clear_image" THEN "" ELSE a.param
    IN
    /\ \E W \in {Execute(World, a)} :
          /\ Commit(W)
          /\ last' = Observed([NoObs EXCEPT !.op = a.act, !.act = a, !.what = v,
                   !.r = onRegion,
                   !.hit = (onRegion # Undefined /\ v # regions[onRegion].imageLoc)], W)
    /\ UNCHANGED <<bookkeeping, hasFsm, host, delivered, intr>>

\* action.bindRegion(regionList) (recorded: the action in act, the list in
\* picked, _onRegion before the call in x and after it in r). A new Action
\* has _onRegion undefined; binding the action of the last call again finds
\* what that call left
BindRegionTo(a, regionList) ==
    LET prev == IF last.op = "bind" /\ last.act = a THEN last.r ELSE Undefined IN
    /\ last' = [NoObs EXCEPT !.op = "bind", !.act = a, !.picked = regionList,
                             !.x = prev,
                             !.r = BindRegion(a, prev, regionList),
                             !.errs = BindDiagnostics(a, regionList)]
    /\ UNCHANGED <<regions, cache, images, cur, bookkeeping, hasFsm, host, delivered, intr>>

\* fsm.actOnEvent(...) for an event that matches transition t of the FSM
\* (recorded: the index of t in x)
FireTransition(k, t) ==
    /\ cur = t.from
    /\ \E W \in {TakeTransition(World, t)} :
          /\ Commit(W)
          /\ last' = Observed([NoObs EXCEPT !.op = "fire", !.x = k], W)
    /\ UNCHANGED <<bookkeeping, hasFsm, host, delivered, intr>>

\* interactor.damage(), from client code or from the FSM
InteractorDamageCall ==
    /\ last' = Observed([NoObs EXCEPT !.op = "damage"], InteractorDamage(World))
    /\ UNCHANGED <<regions, cache, images, cur, bookkeeping, hasFsm, host, delivered, intr>>

\* region.damage(), from client code or from the region's setters
RegionDamageCall(r) ==
    /\ last' = Observed([NoObs EXCEPT !.op = "damage", !.r = r], RegionDamage(World, r))
    /\ UNCHANGED <<regions, cache, images, cur, bookkeeping, hasFsm, host, delivered, intr>>

\* interactor.parent = v (v: a Root object or undefined)
SetHost(v) ==
    /\ \E W \in {IF ~(host = v) THEN InteractorDamage([World EXCEPT !.host = v])
                  ELSE World} :
          /\ host' = W.host
          /\ last' = Observed([NoObs EXCEPT !.op = "host", !.hit = (v # host)], W)
    /\ UNCHANGED <<regions, cache, images, cur, bookkeeping, hasFsm, delivered, intr>>

\* region.parent = v (v: the FSM or undefined)
SetRegionParent(r, v) ==
    /\ \E W \in {IF ~(regions[r].parent = v)
                  THEN RegionDamage([World EXCEPT !.regions[r].parent = v], r)
                  ELSE World} :
          /\ Commit(W)
          /\ last' = Observed([NoObs EXCEPT !.op = "parent", !.r = r,
                                            !.hit = (v # regions[r].parent)], W)
    /\ UNCHANGED <<bookkeeping, hasFsm, host, delivered, intr>>

\* interactor.x = v
SetInteractorX(v) ==
    /\ \E W \in {IF ~(intr.x = v) THEN InteractorDamage(World) ELSE World} :
          last' = Observed([NoObs EXCEPT !.op = "x", !.x = v, !.y = intr.y,
                                         !.hit = (v # intr.x)], W)
    /\ intr' = [intr EXCEPT !.x = v]
    /\ UNCHANGED <<regions, cache, images, cur, bookkeeping, hasFsm, host, delivered>>

\* interactor.y = v
SetInteractorY(v) ==
    /\ \E W \in {IF ~(intr.y = v) THEN InteractorDamage(World) ELSE World} :
          last' = Observed([NoObs EXCEPT !.op = "y", !.x = intr.x, !.y = v,
                                         !.hit = (v # intr.y)], W)
    /\ intr' = [intr EXCEPT !.y = v]
    /\ UNCHANGED <<regions, cache, images, cur, bookkeeping, hasFsm, host, delivered>>

\* interactor.position = {x: vx, y: vy}. The statement `this.parent?.damage;`
\* reads the parent's method and does not call it
SetPosition(vx, vy) ==
    /\ last' = Observed([NoObs EXCEPT !.op = "position", !.x = vx, !.y = vy,
                                      !.hit = ((vx # intr.x) \/ (vy # intr.y))], World)
    /\ intr' = IF (vx # intr.x) \/ (vy # intr.y)
               THEN [intr EXCEPT !.x = vx, !.y = vy]
               ELSE intr
    /\ UNCHANGED <<regions, cache, images, cur, bookkeeping, hasFsm, host, delivered>>

\* ------------------------------------------------------------------------
\* Construction
\* ------------------------------------------------------------------------
RECURSIVE StartLoads(_, _)
\* each Region constructor ends by calling _startImageLoad()
StartLoads(W, k) ==
    IF k > NumRegions THEN W ELSE StartLoads(StartImageLoad(W, k), k + 1)

\* the process-wide image cache when the FSM is built: empty, or holding the
\* images another interactor of the page has loaded from p and q
EmptyCache == [images |-> <<>>, cache |-> [l \in AllLocs |-> NoEntry]]

LoadedCache ==
    [images |-> <<[src |-> "p", status |-> "ok", owner |-> Undefined],
                  [src |-> "q", status |-> "ok", owner |-> Undefined]>>,
     cache |-> [l \in AllLocs |-> IF l = "p" THEN 1 ELSE IF l = "q" THEN 2 ELSE NoEntry]]

\* the cache when only p has been loaded before
PartCache ==
    [images |-> <<[src |-> "p", status |-> "ok", owner |-> Undefined]>>,
     cache |-> [l \in AllLocs |-> IF l = "p" THEN 1 ELSE NoEntry]]

\* FSM.fromJson(json) with regions of the given positions, sizes and locations
Construct(pos, size, locs, c) ==
    StartLoads([regions |-> [k \in RegionIds |->
                    NewRegion(RegionNames[k], locs[k], pos[k][1], pos[k][2],
                              size[k][1], size[k][2])],
                cache |-> c.cache, images |-> c.images,
                cur |-> "S0", host |-> TRUE,
                dmg |-> 0, errs |-> 0, started |-> 0, acts |-> <<>>, at |-> <<>>], 1)

Positions == (0..MaxPos) \X (0..MaxPos)

\* A and B have explicit sizes, C is sized by its image
RegionSizes == <<<<MaxSize, MaxSize>>, <<MaxSize, 0>>, <<-1, -1>>>>

NoLocs == [k \in RegionIds |-> ""]

InitWith(W) ==
    /\ regions = W.regions
    /\ cache = W.cache
    /\ images = W.images
    /\ cur = W.cur
    /\ bookkeeping = <<>>
    /\ hasFsm = TRUE
    /\ host = TRUE
    /\ delivered = <<>>
    /\ intr = [x |-> 0, y |-> 0, gen |-> 0, fetching |-> 0]
    /\ last = NoObs

\* ------------------------------------------------------------------------
\* Raw event dispatch: A at the origin, B to its right and overlapping its
\* corner, C anywhere
\* ------------------------------------------------------------------------
Layouts == {pos \in [RegionIds -> Positions] : pos[1] = <<0, 0>> /\ pos[2] = <<1, 0>>}

InitDispatch ==
    \E pos \in Layouts :
        InitWith(Construct(pos, RegionSizes, NoLocs, LoadedCache))

Dispatch ==
    \E what \in RawKinds, x \in Coords, y \in Coords : DispatchRawEvent(what, x, y)

NextDispatch == Dispatch

SpecDispatch == InitDispatch /\ [][NextDispatch]_vars

\* ------------------------------------------------------------------------
\* The pick tests: A at the origin with any size, B and C anywhere, any point
\* ------------------------------------------------------------------------
InitPick ==
    \E pos \in {q \in [RegionIds -> Positions] : q[1] = <<0, 0>>},
       w \in 0..MaxSize, h \in 0..MaxSize :
        InitWith(Construct(pos, [RegionSizes EXCEPT ![1] = <<w, h>>], NoLocs, EmptyCache))

PickPoint == \E x \in Coords, y \in Coords : PickAt(x, y)

PickLocal == \E r \in RegionIds, x \in LocalCoords, y \in LocalCoords : RegionPickAt(r, x, y)

NextPick == PickPoint \/ PickLocal

SpecPick == InitPick /\ [][NextPick]_vars

\* ------------------------------------------------------------------------
\* Image loading: the regions' locations are set and the loads resolve in
\* any order
\* ------------------------------------------------------------------------
InitLoad ==
    InitWith(Construct([k \in RegionIds |-> <<0, 0>>], RegionSizes, NoLocs, EmptyCache))

\* the regions whose location changes: A (explicit size) and C (sized by image)
LoadRegions == {1, 3}

SetLoc == \E r \in LoadRegions, v \in AllLocs : SetRegionImageLoc(r, v)

\* the image actions an FSM can hold for C
LoadActions ==
    {Act("set_image", "C", v) : v \in AllLocs} \cup {Act("clear_image", "C", "")}

ExecAct == \E a \in LoadActions : ExecuteAction(a)

LoadOk == \E i \in 1..Len(images) : LoadSucceeds(i)

LoadErr == \E i \in 1..Len(images) : LoadFails(i)

NextLoad == SetLoc \/ ExecAct \/ LoadOk \/ LoadErr

SpecLoad == InitLoad /\ [][NextLoad]_vars

\* ------------------------------------------------------------------------
\* Region geometry: the position and size of A and C are set, one field at a
\* time
\* ------------------------------------------------------------------------
InitGeom == InitLoad

Fields == {"x", "y", "w", "h"}

SetGeom ==
    \E r \in LoadRegions, f \in Fields, v \in 0..MaxSize : SetRegionField(r, f, v)

NextGeom == SetGeom

SpecGeom == InitGeom /\ [][NextGeom]_vars

\* ------------------------------------------------------------------------
\* Binding: actions are bound to lists of regions, which may hold two regions
\* of one name, in any order
\* ------------------------------------------------------------------------
InitBind == InitLoad

\* the lists of distinct Region objects, of up to NumRegions regions
RegionLists ==
    UNION {{l \in [1..n -> RegionIds \cup {Twin}] :
               \A i, j \in 1..n : l[i] = l[j] => i = j} : n \in 0..NumRegions}

BindActions ==
    {Act(t, n, "") : t \in {"set_image", "clear_image", "print", "none"},
                    n \in {"A", "C", "Z"}}

Bind == \E a \in BindActions, l \in RegionLists : BindRegionTo(a, l)

NextBind == Bind

SpecBind == InitBind /\ [][NextBind]_vars

\* ------------------------------------------------------------------------
\* Action execution: actions bound to A, to C or to no region (Z) are
\* executed one call at a time, or as the action list of a transition that
\* is taken; p is cached, q is not
\* ------------------------------------------------------------------------
InitExec ==
    InitWith(Construct([k \in RegionIds |-> <<0, 0>>], RegionSizes, NoLocs, PartCache))

ExecActions ==
    {Act(t, n, v) : t \in {"set_image", "clear_image"}, n \in {"A", "C", "Z"},
                   v \in AllLocs}
        \cup {Act("none", "A", ""), Act("print", "", "hello"),
              Act("draw_line", "Z", ""), Act("select_color", "Z", "")}

ExecOne == \E a \in ExecActions : ExecuteAction(a)

\* transitions whose actions act on one region more than once
ExecTransitions == <<
    Trans("S0", "press", "*",
          <<Act("set_image", "C", "q"), Act("set_image", "C", "q")>>, "S1"),
    Trans("S1", "release", "*",
          <<Act("set_image", "A", "p"), Act("clear_image", "A", "")>>, "S2"),
    Trans("S2", "press", "*",
          <<Act("clear_image", "C", ""), Act("set_image", "C", "p"),
            Act("set_image", "A", "p")>>, "S0"),
    Trans("S0", "move_inside", "*",
          <<Act("set_image", "A", "q"), Act("set_image", "Z", "p"),
            Act("print", "", "moved")>>, "S0") >>

Fire == \E k \in 1..Len(ExecTransitions) : FireTransition(k, ExecTransitions[k])

NextExec == ExecOne \/ Fire

SpecExec == InitExec /\ [][NextExec]_vars

\* ------------------------------------------------------------------------
\* The FSM driven by raw events: A at the origin, B to its right, C below
\* A's corner
\* ------------------------------------------------------------------------
FsmLayout == <<<<0, 0>>, <<1, 0>>, <<0, 1>>>>

InitFsm == InitWith(Construct(FsmLayout, RegionSizes, NoLocs, LoadedCache))

NextFsm == Dispatch

SpecFsm == InitFsm /\ [][NextFsm]_vars

\* ------------------------------------------------------------------------
\* The damage chain and the interactor's position: regions and interactor
\* are attached and detached, moved, and asked to declare damage
\* ------------------------------------------------------------------------
InitHost == InitFsm

Attach == \E v \in BOOLEAN : SetHost(v) \/ (\E r \in RegionIds : SetRegionParent(r, v))

Damage == InteractorDamageCall \/ (\E r \in RegionIds : RegionDamageCall(r))

MoveRegion == \E r \in {1}, v \in 0..MaxPos : SetRegionField(r, "x", v)

MoveInteractor ==
    \E vx \in 0..MaxPos, vy \in 0..MaxPos :
        SetInteractorX(vx) \/ SetInteractorY(vy) \/ SetPosition(vx, vy)

NextHost == Attach \/ Damage \/ MoveRegion \/ MoveInteractor

SpecHost == InitHost /\ [][NextHost]_vars

\* ------------------------------------------------------------------------
\* Loading the FSM description: the interactor is built with or without an
\* FSM, descriptions are fetched while raw events are dispatched, and each
\* fetch fails or yields a new FSM
\* ------------------------------------------------------------------------
\* FSM.fromJson(data, ...): a new FSM object with new Region objects, in its
\* start state
FromJson(W) ==
    [Construct(FsmLayout, RegionSizes, NoLocs, [images |-> W.images, cache |-> W.cache])
        EXCEPT !.host = W.host, !.dmg = W.dmg, !.errs = W.errs]

\* startLoadFromJson(jsonLoc, root) up to its `await fetch(jsonLoc)`
StartLoadFromJson ==
    /\ intr.gen + intr.fetching < MaxLoads
    /\ intr' = [intr EXCEPT !.fetching = @ + 1]
    /\ last' = [NoObs EXCEPT !.op = "fetch"]
    /\ UNCHANGED <<regions, cache, images, cur, bookkeeping, hasFsm, host, delivered>>

\* the fetch resolves with !response.ok: Err.emit, this._fsm = undefined
JsonFails ==
    /\ intr.fetching > 0
    /\ intr' = [intr EXCEPT !.fetching = @ - 1]
    /\ hasFsm' = FALSE
    /\ last' = Observed([NoObs EXCEPT !.op = "jsonFailed", !.book = bookkeeping],
                        [World EXCEPT !.errs = @ + 1])
    /\ UNCHANGED <<regions, cache, images, cur, bookkeeping, host, delivered>>

\* the fetch resolves with a description: this._fsm = FSM.fromJson(...),
\* this.damage()
JsonLoads ==
    /\ intr.fetching > 0
    /\ intr' = [intr EXCEPT !.fetching = @ - 1, !.gen = @ + 1]
    /\ hasFsm' = TRUE
    /\ \E W \in {InteractorDamage(FromJson(World))} :
          /\ Commit(W)
          /\ last' = Observed([NoObs EXCEPT !.op = "jsonLoaded", !.book = bookkeeping], W)
    /\ UNCHANGED <<bookkeeping, host, delivered>>

\* new FSMInteractor(): no FSM supplied (the regions are those of the
\* description that will be fetched)
InitBare ==
    \E W \in {Construct(FsmLayout, RegionSizes, NoLocs, LoadedCache)} :
        /\ regions = W.regions
        /\ cache = W.cache
        /\ images = W.images
        /\ cur = W.cur
        /\ bookkeeping = <<>>
        /\ hasFsm = FALSE
        /\ host = TRUE
        /\ delivered = <<>>
        /\ intr = [x |-> 0, y |-> 0, gen |-> 0, fetching |-> 0]
        /\ last = NoObs

InitReload == InitFsm \/ InitBare

LoadJson == StartLoadFromJson \/ JsonFails \/ JsonLoads

\* the pointer over A alone, over A and B, and over no region
ReloadPoints == {<<0, 0>>, <<1, 0>>, <<MaxPos + MaxSize, MaxPos + MaxSize>>}

DispatchAtPoints ==
    \E what \in {"press", "move"}, pt \in ReloadPoints :
        DispatchRawEvent(what, pt[1], pt[2])

PickAtPoints == \E pt \in ReloadPoints : PickAt(pt[1], pt[2])

NextReload == DispatchAtPoints \/ PickAtPoints \/ LoadJson

SpecReload == InitReload /\ [][NextReload]_vars

\* ------------------------------------------------------------------------
\* Properties of raw event dispatch (SpecDispatch)
\* ------------------------------------------------------------------------
KindTypes == {"press", "move_inside", "release", "release_none", "rightClick"}

\* exit events form group 0, enter events group 1, kind-specific events group 2
Group(type) == IF type = "exit" THEN 0 ELSE IF type = "enter" THEN 1 ELSE 2

\* how many times the last dispatch delivered the event (type, r)
Count(type, r) == Cardinality({k \in 1..Len(delivered) : delivered[k] = Evt(type, r)})

CountType(type) == Cardinality({k \in 1..Len(delivered) : delivered[k].type = type})

OneIf(b) == IF b THEN 1 ELSE 0

Dispatched == last.op = "dispatch" /\ hasFsm

\* C1: within one dispatchRawEvent call every exit event is delivered before
\* every enter event, and every enter event before every kind-specific event.
C1_ExitEnterKindOrder ==
    \A i, j \in 1..Len(delivered) :
        i < j => Group(delivered[i].type) <= Group(delivered[j].type)

C1_Witness ==
    /\ Dispatched
    /\ \E i, j, k \in 1..Len(delivered) :
          /\ delivered[i].type = "exit"
          /\ delivered[j].type = "enter"
          /\ delivered[k].type \in KindTypes

\* C2: within the exit group, the enter group and the kind-specific group of
\* one dispatch, the event of a region drawn later is delivered before the
\* event of a region drawn earlier (region ids are draw positions).
C2_ReverseDrawOrder ==
    \A i, j \in 1..Len(delivered) :
        (i < j /\ Group(delivered[i].type) = Group(delivered[j].type))
            => delivered[i].region > delivered[j].region

C2_Witness ==
    /\ Dispatched
    /\ CountType("exit") >= 2
    /\ CountType("enter") >= 1
    /\ \E k \in 1..Len(delivered) : delivered[k].type \in KindTypes

\* C3: a region receives one enter event iff it is picked now and was not in
\* bookkeeping, one exit event iff it was in bookkeeping and is not picked
\* now, and otherwise neither.
C3_EnterExitAreSetDifferences ==
    Dispatched =>
        \A r \in RegionIds :
            /\ Count("enter", r) = OneIf(Includes(last.picked, r) /\ ~Includes(last.book, r))
            /\ Count("exit", r) = OneIf(Includes(last.book, r) /\ ~Includes(last.picked, r))

C3_Witness ==
    /\ Dispatched
    /\ \E a, b, c \in RegionIds :
          /\ Includes(last.picked, a) /\ ~Includes(last.book, a) /\ Count("enter", a) = 1
          /\ Includes(last.book, b) /\ ~Includes(last.picked, b) /\ Count("exit", b) = 1
          /\ Includes(last.book, c) /\ Includes(last.picked, c)
          /\ Count("enter", c) = 0 /\ Count("exit", c) = 0

\* C4: a raw release over a non-empty pick set delivers one release event per
\* picked region and no release_none; over an empty pick set it delivers one
\* region-less release_none and no release.
C4_ReleaseOrReleaseNone ==
    (Dispatched /\ last.what = "release") =>
        IF Len(last.picked) > 0
        THEN /\ \A r \in RegionIds : Count("release", r) = OneIf(Includes(last.picked, r))
             /\ CountType("release") = Len(last.picked)
             /\ CountType("release_none") = 0
        ELSE /\ Count("release_none", Undefined) = 1
             /\ CountType("release_none") = 1
             /\ CountType("release") = 0

C4_Witness ==
    /\ Dispatched /\ last.what = "release"
    /\ last.picked = <<>>
    /\ last.book # <<>>
    /\ Count("release_none", Undefined) = 1

\* the semantic event of a raw press, move or rightClick
KindOf(what) ==
    IF what = "press" THEN "press" ELSE IF what = "move" THEN "move_inside" ELSE "rightClick"

\* C5: a raw press, move or rightClick delivers one press, move_inside or
\* rightClick event to every picked region, and no other kind-specific event.
C5_KindEventPerPickedRegion ==
    (Dispatched /\ last.what \in {"press", "move", "rightClick"}) =>
        /\ \A r \in RegionIds :
              Count(KindOf(last.what), r) = OneIf(Includes(last.picked, r))
        /\ \A t \in KindTypes :
              CountType(t) = IF t = KindOf(last.what) THEN Len(last.picked) ELSE 0

C5_Witness ==
    /\ Dispatched /\ last.what = "move"
    /\ Len(last.picked) >= 2
    /\ CountType("move_inside") = Len(last.picked)

\* C6: bookkeeping is empty before the first dispatch, and after a dispatch
\* it is the pick list computed at the start of that call.
C6_BookkeepingIsStartPick ==
    /\ last.op = "init" => bookkeeping = <<>>
    /\ Dispatched => bookkeeping = last.picked

\* a dispatch whose actions resized a region under the pointer, so that
\* picking again at the end of the call gives another list
C6_Witness ==
    /\ Dispatched
    /\ last.repick # last.picked
    /\ bookkeeping = last.picked

\* ------------------------------------------------------------------------
\* Properties of the pick tests (SpecPick)
\* ------------------------------------------------------------------------
\* C7: pick(x, y) holds exactly the regions R with R.pick(x - R.x, y - R.y),
\* each once, the region drawn last first.
C7_PickIsReverseDrawOrder ==
    last.op = "pick" =>
        /\ \A r \in RegionIds :
              Cardinality({k \in 1..Len(last.picked) : last.picked[k] = r})
                = OneIf(RegionPick(regions[r], last.x - regions[r].x, last.y - regions[r].y))
        /\ \A i, j \in 1..Len(last.picked) : i < j => last.picked[i] > last.picked[j]

C7_Witness ==
    /\ last.op = "pick"
    /\ Len(last.picked) = 2

\* C8: R.pick(x, y) is true iff 0 <= x <= R.w and 0 <= y <= R.h, the edges
\* and the four corners included.
C8_PickIsClosedBox ==
    last.op = "regionPick" =>
        (last.hit <=> (last.x \in 0..regions[last.r].w /\ last.y \in 0..regions[last.r].h))

C8_Witness ==
    /\ last.op = "regionPick"
    /\ regions[last.r].w > 0 /\ regions[last.r].h > 0
    /\ last.x = regions[last.r].w /\ last.y = regions[last.r].h
    /\ last.hit

\* ------------------------------------------------------------------------
\* Properties of image loading (SpecLoad)
\* ------------------------------------------------------------------------
\* the region has a resolved image of its current location
Resolved(r) ==
    regions[r].imageLoc # "" /\ regions[r].loaded /\ ~regions[r].loadError

\* C9: requesting the same location twice, by one region or by two, triggers
\* only one underlying load of it and yields the same resolved image handle.
C9_OneLoadOneHandlePerLocation ==
    /\ \A i, j \in 1..Len(images) : images[i].src = images[j].src => i = j
    /\ \A r1, r2 \in RegionIds :
          (Resolved(r1) /\ Resolved(r2) /\ regions[r1].imageLoc = regions[r2].imageLoc)
              => regions[r1].image = regions[r2].image

\* a load of the location has failed
HasFailed(loc) == \E i \in 1..Len(images) : images[i].src = loc /\ images[i].status = "failed"

\* C10: a region that requests a location after a load of that location has
\* failed immediately has loaded = true and loadError = true, and no new load
\* is started.
C10_FailedLoadIsPermanent ==
    (last.op = "imageLoc" /\ last.hit /\ HasFailed(last.what)) =>
        /\ regions[last.r].loaded
        /\ regions[last.r].loadError
        /\ last.started = 0

\* the load that has just resolved, and the region that started it
Done == last.op \in {"onload", "onerror"}

\* C11: when a region's load of location L fails, the region ends with
\* loaded = true and loadError = true, and the image cache holds an entry
\* for L whose value is absent.
C11_FailedLoadIsCachedAsAbsent ==
    (last.op = "onerror") =>
        /\ regions[last.r].loaded
        /\ regions[last.r].loadError
        /\ cache[last.what] = Undefined

\* C12: when the load of a region's current location L succeeds, then
\* whatever earlier loads of that region did, the region ends with
\* loaded = true, loadError = false and the image loaded from L, and the
\* cache entry of L is that image.
C12_CurrentLoadSuccessWins ==
    (last.op = "onload" /\ regions[last.r].image = last.x
                        /\ regions[last.r].imageLoc = last.what) =>
        /\ regions[last.r].loaded
        /\ ~regions[last.r].loadError
        /\ cache[last.what] = last.x

\* C13: every completion of an image load, by success or by failure, is
\* followed by a damage() that reaches the host when the region has a
\* parent FSM, the FSM an interactor and the interactor a host.
C13_LoadCompletionDamagesHost ==
    (Done /\ regions[last.r].parent /\ hasFsm /\ host) => last.dmg >= 1

\* C14: once the cache holds an entry for a location, no step replaces the
\* entry with another value or starts another load of that location.
C14_CacheEntriesAreWriteOnce ==
    [][\A l \in AllLocs : (cache[l] # NoEntry) =>
          /\ cache'[l] = cache[l]
          /\ \A i \in (Len(images) + 1)..Len(images') : images'[i].src # l]_vars

\* C15: in every reachable state of every region, loadError implies loaded.
C15_LoadErrorImpliesLoaded ==
    \A r \in RegionIds : regions[r].loadError => regions[r].loaded

\* a load has just failed and its region reports the error
C15_Witness ==
    last.op = "onerror" /\ regions[last.r].loadError /\ regions[last.r].loaded

\* C16: a region constructed with a missing or negative w or h has, in
\* every reachable state, the natural size of the last image that loaded
\* successfully, or (0, 0) while no load has completed.
C16_AutoSizeTracksLastLoadedImage ==
    \A r \in RegionIds : regions[r].resizedByImage =>
        /\ (\A i \in 1..Len(images) : images[i].status = "pending") =>
               (regions[r].w = 0 /\ regions[r].h = 0)
        /\ (last.op = "onload" /\ last.r = r) =>
               (regions[r].w = NaturalW(last.what) /\ regions[r].h = NaturalH(last.what))

\* the load that has just resolved is a stale one: its region has since
\* started the load of another location, which is still in flight
StaleDone ==
    /\ Done
    /\ LET R == regions[last.r] IN
          /\ R.image # Undefined
          /\ R.image # last.x
          /\ images[R.image].status = "pending"
          /\ images[R.image].owner = last.r
          /\ images[R.image].src = R.imageLoc
          /\ R.imageLoc # last.what

\* C17: when a region's location is changed to an uncached one while an
\* earlier load of the region is in flight, the resolution of the earlier
\* load does not change what the region reports: loaded stays false until
\* the load of the latest location resolves.
C17_StaleResolutionIsInvisible ==
    StaleDone => (~regions[last.r].loaded /\ ~regions[last.r].loadError)

\* ------------------------------------------------------------------------
\* Properties of the region setters (SpecGeom, SpecLoad)
\* ------------------------------------------------------------------------
\* C18: setting a region's x, y, w or h to the value it has declares no
\* damage and leaves the region unchanged; setting it to a different value
\* updates that field and declares damage exactly once.
C18_FieldSetterDamagesOnChange ==
    [][(last'.op = "set") =>
          LET r == last'.r
              f == last'.what
              v == last'.x
          IN IF regions[r][f] = v
             THEN regions' = regions /\ last'.dmg = 0
             ELSE /\ regions' = [regions EXCEPT ![r][f] = v]
                  /\ last'.dmg = 1]_vars

\* a width has just been set to the value it had, and nothing was damaged
C18_Witness ==
    /\ last.op = "set" /\ last.what = "w" /\ ~last.hit
    /\ regions[last.r].w = last.x /\ last.x > 0
    /\ last.dmg = 0

\* C19: setting a region's imageLoc to the value it has, directly or by a
\* set_image action whose param is the target's current location, is a
\* no-op: no load is started, the region's loaded, loadError and image and
\* the cache are unchanged, and no damage is declared.
C19_SameLocationIsNoOp ==
    [][(last'.op \in {"imageLoc", "set_image"} /\ last'.r # Undefined /\ ~last'.hit) =>
          /\ regions' = regions
          /\ cache' = cache
          /\ images' = images
          /\ last'.started = 0
          /\ last'.dmg = 0]_vars

\* a set_image action has just named the location its target is still
\* loading from
C19_Witness ==
    /\ last.op = "set_image" /\ last.r # Undefined /\ ~last.hit
    /\ regions[last.r].imageLoc = last.what /\ last.what # ""
    /\ ~regions[last.r].loaded

\* ------------------------------------------------------------------------
\* Properties of action execution (SpecDispatch)
\* ------------------------------------------------------------------------
\* C20: executing an action whose type is not in the known vocabulary
\* aborts the dispatch: no later action or semantic event of that dispatch
\* is processed, so nothing is executed after it.
C20_UnknownActionAbortsDispatch ==
    Dispatched =>
        \A k \in 1..Len(last.acts) :
            (last.acts[k] \notin ActionTypes) => k = Len(last.acts)

\* ------------------------------------------------------------------------
\* Properties of binding (SpecBind)
\* ------------------------------------------------------------------------
\* the positions of the bound list that hold a region of the action's name
NamedAt == {k \in 1..Len(last.picked) : RegionName(last.picked[k]) = last.act.region}

\* C21: bindRegion binds the action to the first region, in list order,
\* whose name is the action's target name; a later region of that name is
\* never bound.
C21_BindsFirstMatchInListOrder ==
    (last.op = "bind" /\ NamedAt # {}) =>
        \E k \in NamedAt :
            /\ last.r = last.picked[k]
            /\ \A j \in NamedAt : k <= j

\* two regions of the list have the name, the one of the higher index comes
\* first in the list, and it is the one bound
C21_Witness ==
    /\ last.op = "bind" /\ Cardinality(NamedAt) = 2
    /\ last.r = Twin
    /\ \E i, j \in NamedAt : i < j /\ last.picked[i] = Twin /\ last.picked[j] = 1

\* C22: when no region of the list has the target name, an action of type
\* none, print or print_event is bound to no region and nothing is
\* reported; for any other type exactly one diagnostic is reported and the
\* call returns, so that the following bindRegion calls bind as usual.
C22_UnboundActionIsReportedOnce ==
    (last.op = "bind" /\ NamedAt = {}) =>
        IF last.act.act \in {"none", "print", "print_event"}
        THEN last.r = Undefined /\ last.errs = 0
        ELSE last.errs = 1

\* a set_image action naming no region of a non-empty list has just been
\* reported
C22_Witness ==
    /\ last.op = "bind" /\ NamedAt = {} /\ last.picked # <<>>
    /\ last.act.act = "set_image"
    /\ last.errs = 1

\* ------------------------------------------------------------------------
\* Properties of action execution (SpecExec)
\* ------------------------------------------------------------------------
\* the action types that need a region
RegionRequired == ActionTypes \ RegionOptional

\* C23: executing an action that needs a region but is bound to none is a
\* silent no-op: no region changes, no load starts, no damage is declared,
\* nothing is reported, and the call returns so that the next action runs.
C23_UnboundActionIsNoOp ==
    [][(last'.op \in RegionRequired /\ last'.r = Undefined) =>
          /\ regions' = regions
          /\ cache' = cache
          /\ images' = images
          /\ cur' = cur
          /\ last'.dmg = 0 /\ last'.started = 0 /\ last'.errs = 0]_vars

\* a set_image of an uncached location has just been executed on no region,
\* after an action that did change a region
C23_Witness ==
    /\ last.op = "set_image" /\ last.r = Undefined /\ last.act.param = "q"
    /\ cache["q"] = NoEntry
    /\ \E r \in RegionIds : regions[r].imageLoc # ""

RECURSIVE Writes(_, _, _, _)
\* what the actions from the k-th on leave in the location of region r, and
\* how many of them change it to a location that is not cached (n), when
\* each finds what the one before left
Writes(actions, k, r, st) ==
    IF k > Len(actions) THEN st
    ELSE LET a == actions[k]
             v == IF a.act = "clear_image" THEN "" ELSE a.param
         IN IF a.act \in {"set_image", "clear_image"} /\ a.region = RegionNames[r]
                                                      /\ v # st.loc
            THEN Writes(actions, k + 1, r,
                        [loc |-> v,
                         n |-> st.n + OneIf(v # "" /\ cache[v] = NoEntry)])
            ELSE Writes(actions, k + 1, r, st)

WritesOf(actions, r) == Writes(actions, 1, r, [loc |-> regions[r].imageLoc, n |-> 0])

RECURSIVE TotalWrites(_, _)
TotalWrites(actions, r) ==
    IF r > NumRegions THEN 0 ELSE WritesOf(actions, r).n + TotalWrites(actions, r + 1)

\* C26: on a matched transition the actions are executed in declared order,
\* each finding the regions as the actions before it left them, and the
\* target state becomes the current state only after the last action.
C26_ActionsInOrderThenState ==
    [][(last'.op = "fire") =>
          LET t == ExecTransitions[last'.x]
              n == Len(t.actions)
          IN /\ last'.acts = [k \in 1..n |-> t.actions[k].act]
             /\ last'.at = [k \in 1..n |-> cur]
             /\ cur' = t.to
             /\ \A r \in RegionIds :
                   regions'[r].imageLoc = WritesOf(t.actions, r).loc
             /\ last'.started = TotalWrites(t.actions, 1)]_vars

\* the transition that sets C to q twice has been taken: one load was
\* started, by the first action, and the state changed
C26_Witness ==
    /\ last.op = "fire" /\ last.x = 1
    /\ last.started = 1 /\ last.dmg = 0
    /\ regions[3].imageLoc = "q" /\ cur = "S1"
    /\ last.at = <<"S0", "S0">>

\* ------------------------------------------------------------------------
\* Properties of the FSM under raw events (SpecFsm)
\* ------------------------------------------------------------------------
\* the step is a dispatchRawEvent call on an interactor that has an FSM
DispatchStep == last'.op = "dispatch" /\ hasFsm

\* C24: with the FSM in S0 and the transition (S0, press, A) -> S1 carrying
\* set_image(A, p), a raw press at a point inside A (and inside no other
\* region) leaves the FSM in S1 and A's imageLoc equal to p.
C24_PressSetsImageAndState ==
    [][(DispatchStep /\ cur = "S0" /\ last'.what = "press" /\ last'.picked = <<1>>) =>
          (cur' = "S1" /\ regions'[1].imageLoc = "p")]_vars

\* such a press has just been dispatched: the one action ran in S0
C24_Witness ==
    /\ last.op = "dispatch" /\ last.what = "press" /\ last.picked = <<1>>
    /\ last.acts = <<"set_image">> /\ last.at = <<"S0">>
    /\ cur = "S1" /\ regions[1].imageLoc = "p"

\* C25: a semantic event for which the current state has no transition is
\* absorbed: the state is unchanged, no action is executed and nothing is
\* reported, and the events after it in the same dispatch are delivered.
C25_UnmatchedEventIsAbsorbed ==
    [][DispatchStep =>
          LET events == delivered'
              Unmatched(k) == FindTransition(cur, events[k]) = 0
          IN /\ (\A k \in 1..Len(events) : Unmatched(k)) =>
                   /\ cur' = cur
                   /\ regions' = regions
                   /\ images' = images
                   /\ last'.acts = <<>>
                   /\ last'.errs = 0
             /\ \A j \in 1..Len(events) :
                   (~Unmatched(j) /\ \A i \in 1..(j - 1) : Unmatched(i)) =>
                       /\ last'.acts # <<>>
                       /\ last'.at[1] = cur
                       /\ last'.acts[1] =
                            Transitions[FindTransition(cur, events[j])].actions[1].act]_vars

\* the first event of the dispatch, enter A, matched nothing, and an event
\* after it fired a transition
C25_Witness ==
    /\ last.op = "dispatch" /\ Len(delivered) >= 2
    /\ delivered[1] = Evt("enter", 1)
    /\ last.acts # <<>>

RECURSIVE Trace(_, _, _)
\* the states in which the actions of a dispatch are executed when every
\* event is looked up in the state the event before it left
Trace(state, events, k) ==
    IF k > Len(events) THEN <<state>>
    ELSE LET j == FindTransition(state, events[k]) IN
         IF j = 0 THEN Trace(state, events, k + 1)
         ELSE [i \in 1..Len(Transitions[j].actions) |-> state]
                  \o Trace(Transitions[j].to, events, k + 1)

\* C27: the semantic events of one dispatch are handed to actOnEvent one at
\* a time, each looked up in the state the one before it left: when an exit
\* or enter event changes the state, the later events of the dispatch are
\* matched against the new state.
C27_EventsSeeStateLeftByEarlierOnes ==
    [][DispatchStep => (last'.at \o <<cur'>> = Trace(cur, delivered', 1))]_vars

\* a press entered C: the enter event took the FSM from S0 to S1 and the
\* press event was then matched in S1
C27_Witness ==
    /\ last.op = "dispatch" /\ last.what = "press"
    /\ last.acts = <<"set_image", "set_image", "clear_image">>
    /\ last.at = <<"S0", "S1", "S1">>
    /\ cur = "S2"

\* ------------------------------------------------------------------------
\* Properties of the synchronous cases of a load (SpecLoad)
\* ------------------------------------------------------------------------
\* the last step assigned a region's imageLoc a value other than the one it
\* had, directly or through a set_image or clear_image action, so that
\* _startImageLoad ran (an unchanged value is the no-op of C19)
LocChanged ==
    /\ last.op \in {"imageLoc", "set_image", "clear_image"}
    /\ last.r # Undefined
    /\ last.hit

C30_CacheServesOnlyCompletedLoads ==
    (LocChanged /\ last.what # "" /\ last.started = 0) =>
        \E i \in 1..Len(images) :
            images[i].src = last.what /\ images[i].status # "pending"

\* ------------------------------------------------------------------------
\* Properties of the damage chain and of the interactor's position (SpecHost)
\* ------------------------------------------------------------------------
\* C31: a damage() call on a region reaches the host once if the region has
\* a parent FSM and the interactor has a host, and not at all otherwise; a
\* damage() call on the interactor reaches the host once if there is a host
\* and not at all otherwise.
C31_DamageFollowsParentChain ==
    (last.op = "damage") =>
        IF last.r = Undefined
        THEN last.dmg = OneIf(host)
        ELSE last.dmg = OneIf(regions[last.r].parent /\ host)

\* a region that was detached and attached again has declared damage, and
\* the host has received it
C31_Witness ==
    /\ last.op = "damage" /\ last.r # Undefined
    /\ regions[last.r].parent /\ host
    /\ last.dmg = 1
    /\ \E r \in RegionIds : ~regions[r].parent

\* C38: assigning the interactor's position a value that differs from its
\* (x, y) updates both coordinates and notifies the host of damage as the x
\* and y setters do: once when the interactor has a host.
C38_PositionDamagesLikeXAndY ==
    (last.op \in {"x", "y", "position"} /\ last.hit) =>
        /\ intr.x = last.x
        /\ intr.y = last.y
        /\ last.dmg = OneIf(host)

\* ------------------------------------------------------------------------
\* Properties of bookkeeping over successive dispatches (SpecFsm)
\* ------------------------------------------------------------------------
\* the positions of the event of the given type for region r in a delivery
Occurs(events, type, r) == {k \in 1..Len(events) : events[k] = Evt(type, r)}

\* C33: over the dispatches on an interactor with a fixed FSM the enter and
\* exit events of each region alternate, beginning with enter. Bookkeeping
\* starts empty, and every dispatch delivers at most one enter or exit event
\* per region: an enter only for a region not in bookkeeping, which is in it
\* afterwards, an exit only for a region in bookkeeping, which is out of it
\* afterwards, and neither leaves the region's membership as it was. So a
\* region is in bookkeeping exactly when its latest enter/exit event was
\* enter.
C33_EnterAndExitAlternate ==
    /\ bookkeeping = <<>>
    /\ [][DispatchStep =>
            \A r \in RegionIds :
                LET enters == Occurs(delivered', "enter", r)
                    exits  == Occurs(delivered', "exit", r)
                IN /\ Cardinality(enters) + Cardinality(exits) <= 1
                   /\ (enters # {}) =>
                         (~Includes(bookkeeping, r) /\ Includes(bookkeeping', r))
                   /\ (exits # {}) =>
                         (Includes(bookkeeping, r) /\ ~Includes(bookkeeping', r))
                   /\ (enters = {} /\ exits = {}) =>
                         (Includes(bookkeeping, r) <=> Includes(bookkeeping', r))]_vars

\* one dispatch has delivered exit B and enter C, while A stayed entered
C33_Witness ==
    /\ last.op = "dispatch"
    /\ Occurs(delivered, "exit", 2) # {} /\ Occurs(delivered, "enter", 3) # {}
    /\ Includes(last.book, 1) /\ Includes(bookkeeping, 1)
    /\ ~Includes(bookkeeping, 2) /\ Includes(bookkeeping, 3)

\* C39: every dispatchRawEvent call on an interactor that has an FSM and a
\* host forwards at least one damage() to the host, also when the pick list
\* equals that of the previous dispatch and no transition fires.
C39_EveryDispatchDamagesHost ==
    (Dispatched /\ host) => last.dmg >= 1

\* the pointer stayed over the same region and no transition fired: the
\* only damage is that of the bookkeeping setter
C39_Witness ==
    /\ Dispatched /\ host
    /\ last.picked # <<>> /\ last.picked = last.book
    /\ last.acts = <<>>
    /\ last.dmg = 1

\* ------------------------------------------------------------------------
\* Properties of the interactor while its FSM is loaded (SpecReload)
\* ------------------------------------------------------------------------
\* the Region objects of the interactor's current FSM
OwnRegions == {Obj(k) : k \in RegionIds}

\* C32: an interactor without an FSM (none supplied, or removed by a failed
\* description load) is inert: pick returns the empty list, dispatchRawEvent
\* delivers no event, leaves bookkeeping and everything else as it was and
\* declares no damage; and a failed description load leaves the interactor
\* without an FSM, reports once and starts no further fetch.
C32_InteractorWithoutFsmIsInert ==
    [][/\ (~hasFsm /\ last'.op = "pick") => (last'.picked = <<>>)
       /\ (~hasFsm /\ last'.op = "dispatch") =>
              /\ delivered' = <<>>
              /\ bookkeeping' = bookkeeping
              /\ last'.dmg = 0
              /\ last'.acts = <<>>
              /\ UNCHANGED <<regions, cache, images, cur, hasFsm, host, intr>>
       /\ (last'.op = "jsonFailed") =>
              /\ ~hasFsm'
              /\ last'.errs = 1
              /\ last'.dmg = 0
              /\ intr'.fetching = intr.fetching - 1
              /\ intr'.gen = intr.gen
              /\ bookkeeping' = bookkeeping]_vars

\* after a failed load removed the FSM, a raw event was dispatched at a
\* point where the pointer had been over a region
C32_Witness ==
    /\ ~hasFsm /\ intr.fetching = 0
    /\ last.op = "dispatch" /\ last.book # <<>>
    /\ bookkeeping = last.book

\* C36: between dispatches every region in bookkeeping is a region of the
\* interactor's current FSM, also after startLoadFromJson has replaced the
\* FSM, and no exit event is delivered to an FSM for a region that is not
\* its own.
C36_BookkeepingBelongsToCurrentFsm ==
    hasFsm =>
        /\ \A k \in 1..Len(bookkeeping) : bookkeeping[k] \in OwnRegions
        /\ (last.op = "dispatch") =>
              \A k \in 1..Len(delivered) :
                  (delivered[k].type = "exit") => (delivered[k].region \in OwnRegions)

\* ------------------------------------------------------------------------
\* Further properties of image loading (SpecLoad) and binding (SpecBind)
\* ------------------------------------------------------------------------
\* C34: every cache entry is faithful to its key, under every interleaving
\* of location changes and load resolutions: the value stored for L is the
\* handle of an image whose load from L succeeded, or it is absent and a
\* load from L has failed.
C34_CacheEntriesAreFaithful ==
    \A L \in AllLocs :
        (cache[L] # NoEntry) =>
            IF cache[L] = Undefined
            THEN \E i \in 1..Len(images) :
                     images[i].src = L /\ images[i].status = "failed"
            ELSE images[cache[L]].src = L /\ images[cache[L]].status = "ok"

\* no Image is still loading
AllResolved == \A i \in 1..Len(images) : images[i].status # "pending"

\* C35: once every image fetch that was started has resolved, by success or
\* by failure, every region is loaded: no sequence of location changes and
\* resolutions leaves a region with loaded = false and nothing left to
\* resolve.
C35_ResolvedLoadsLeaveRegionsLoaded ==
    AllResolved => \A r \in RegionIds : regions[r].loaded

\* a region changed its location while a load was in flight, both loads
\* have resolved, the stale one last, and the region is loaded
C35_Witness ==
    /\ AllResolved /\ Len(images) = 2
    /\ last.op \in {"onload", "onerror"} /\ last.x = 1
    /\ images[1].owner = images[2].owner
    /\ regions[images[1].owner].imageLoc = images[2].src
    /\ regions[images[1].owner].loaded

\* C37: after bindRegion(list) the action's region is absent or a member of
\* the list whose name is the action's region name, also when an action
\* that was bound before is bound against a list without such a region.
C37_BoundRegionIsFromTheList ==
    (last.op = "bind") =>
        \/ last.r = Undefined
        \/ /\ Includes(last.picked, last.r)
           /\ RegionName(last.r) = last.act.region
====
